---- MODULE Spec2Model ----
(***************************************************************************)
(* Token-count helpers of ctx:                                             *)
(*   internal/tokenizer/helpers/llama_count.py      (local backend)        *)
(*   internal/tokenizer/helpers/anthropic_count.py  (remote backend)       *)
(* One run of the model is one invocation of one of the two scripts.       *)
(* External collaborators (file system, hf_hub_download, sentencepiece,    *)
(* the Anthropic client) answer nondeterministically.                      *)
(***************************************************************************)
EXTENDS Integers, Sequences, FiniteSets, TLC

VARIABLES
    program,            \* which script runs: "llama" or "anthropic"
    pc,                 \* position of the script
    stdout,             \* what was written to sys.stdout
    stderr,             \* what was written to sys.stderr (one record per message)
    exitCode,           \* process exit status, -1 while running
    uncaught,           \* TRUE when an exception left main() unhandled
    input_text,         \* contents of stdin
    stdinRead,          \* number of sys.stdin.read() calls
    \* ---- llama_count.py ----
    depsImportable,     \* sentencepiece and huggingface_hub import
    path_argument,      \* --spm-model
    env_CTX_SPM_MODEL,  \* os.getenv("CTX_SPM_MODEL")
    fs,                 \* kind of every path of the file system
    cacheDir,           \* state of DEFAULT_CACHE
    cacheFile,          \* state of DEFAULT_CACHE / DEFAULT_FILE
    cacheFileAtStart,   \* cacheFile when the script started
    isFileChecks,       \* <<index of candidate, path>> of each is_file() call
    mkdirCalls,         \* DEFAULT_CACHE.mkdir calls
    fetchCalls,         \* hf_hub_download calls
    downloaded,         \* value hf_hub_download returned
    model_path,         \* value resolve_model_path returned
    returnedAt,         \* return statement of resolve_model_path that was taken
    loadOutcome,        \* outcome of processor.Load
    \* ---- anthropic_count.py ----
    anthropicImportable,\* "from anthropic import Anthropic" succeeds
    richImportable,     \* "from anthropic import APIStatusError, NotFoundError" succeeds
    api_key,            \* os.getenv("ANTHROPIC_API_KEY")
    model,              \* --model
    system_prompt,      \* --system
    client,             \* TRUE once Anthropic(api_key=...) was constructed
    request_args,       \* keyword arguments of count_tokens
    countCalls,         \* client.messages.count_tokens calls
    listCalls,          \* client.models.list calls
    token_count,        \* input_tokens of the response, Unbound before
    count_error,        \* classes the raised exception is an instance of
    models,             \* what client.models.list answered
    suggestions         \* value discover_claude_models returned

vars == <<program, pc, stdout, stderr, exitCode, uncaught, input_text, stdinRead,
          depsImportable, path_argument, env_CTX_SPM_MODEL, fs, cacheDir,
          cacheFile, cacheFileAtStart, isFileChecks, mkdirCalls, fetchCalls,
          downloaded, model_path, returnedAt, loadOutcome,
          anthropicImportable, richImportable, api_key, model, system_prompt,
          client, request_args, countCalls, listCalls, token_count,
          count_error, models, suggestions>>

commonVars == <<stdout, stderr, exitCode, uncaught, input_text, stdinRead>>

llamaVars == <<depsImportable, path_argument, env_CTX_SPM_MODEL, fs, cacheDir,
               cacheFile, cacheFileAtStart, isFileChecks, mkdirCalls,
               fetchCalls, downloaded, model_path, returnedAt, loadOutcome>>

anthropicVars == <<anthropicImportable, richImportable, api_key, model,
                   system_prompt, client, request_args, countCalls, listCalls,
                   token_count, count_error, models, suggestions>>

----------------------------------------------------------------------------
(* Bounds of the model *)

MaxTokens == 2      \* largest token count a backend answers
MaxBase == 3        \* length of the block a model listing is built from
MaxRepeat == 6      \* how often the block is repeated in a listing

----------------------------------------------------------------------------
(* Values shared by both scripts *)

NoneVal == "<None>"
Unbound == -1

\* Python truthiness of an optional string: None and "" are falsy
Truthy(value) == value # NoneVal /\ value # ""

Texts == {"", "some text"}

\* one message on stderr: its text, the model it names, the list it carries
Diagnostic(text, about, items) == [msg |-> text, about |-> about, items |-> items]

Message(text) == Diagnostic(text, NoneVal, <<>>)

----------------------------------------------------------------------------
(* llama_count.py *)

HomeModel == "/home/u/tokenizer.model"
OtherModel == "/data/tokenizer.model"
CachedModel == "/cache/tokenizer.model"

FsPaths == {HomeModel, OtherModel}
FileKinds == {"missing", "directory", "empty_file", "nonempty_file"}
PathStrings == {NoneVal, "", "~/tokenizer.model", HomeModel, OtherModel}

\* Path(candidate).expanduser(): a leading "~" becomes the home directory
expanduser(candidate) ==
    IF candidate = "~/tokenizer.model" THEN HomeModel ELSE candidate

\* variant: Path.exists(), which a directory satisfies too
is_file_Exists(resolved) ==
    resolved \in DOMAIN fs /\ fs[resolved] # "missing"

\* Path.is_file(): an existing regular file, whatever its size
is_file(resolved) ==
    resolved \in DOMAIN fs /\ fs[resolved] \in {"empty_file", "nonempty_file"}

\* candidates = [path_argument, os.getenv("CTX_SPM_MODEL")]
candidates == <<path_argument, env_CTX_SPM_MODEL>>

\* variant: a missing --spm-model path falls through to the next candidate
MissingIsFatal_Never(candidate) == FALSE

\* variant: every candidate that is not a file ends the script
MissingIsFatal_Always(candidate) == TRUE

\* "if candidate == path_argument": a candidate that is not a file ends the
\* script when it is the command-line argument
MissingIsFatal(candidate) == candidate = path_argument

\* the for loop of resolve_model_path, from candidate number i on
RECURSIVE CandidateLoop(_, _)
CandidateLoop(i, checks) ==
    IF i > Len(candidates)
    THEN [kind |-> "fallthrough", path |-> NoneVal, index |-> 0, checks |-> checks]
    ELSE LET candidate == candidates[i]
             resolved == expanduser(candidate)
             seen == Append(checks, <<i, resolved>>)
         IN  IF ~Truthy(candidate) THEN CandidateLoop(i + 1, checks)
             ELSE IF is_file(resolved)
             THEN [kind |-> "return", path |-> resolved, index |-> i, checks |-> seen]
             ELSE IF MissingIsFatal(candidate)
             THEN [kind |-> "exit", path |-> resolved, index |-> i, checks |-> seen]
             ELSE CandidateLoop(i + 1, seen)

\* DEFAULT_CACHE.mkdir(parents=True, exist_ok=True): the states it can leave,
\* "raise" among them when it fails
MkdirOutcomes(dir) ==
    CASE dir = "directory" -> {[ok |-> TRUE, dir |-> "directory"]}
      [] dir = "not_a_directory" -> {[ok |-> FALSE, dir |-> dir]}
      [] OTHER -> {[ok |-> TRUE, dir |-> "directory"], [ok |-> FALSE, dir |-> dir]}

\* hf_hub_download(..., local_dir=DEFAULT_CACHE): returns the path of the file
\* in local_dir (kept when it is there, fetched otherwise) or raises
FetchOutcomes(file) ==
    {[ok |-> FALSE, file |-> file]} \cup
    (IF file = "missing"
     THEN {[ok |-> TRUE, file |-> k] : k \in {"empty_file", "nonempty_file"}}
     ELSE {[ok |-> TRUE, file |-> file], [ok |-> TRUE, file |-> "nonempty_file"]})

\* kind of the file a resolved path names
KindOf(path) ==
    IF path = CachedModel THEN cacheFile
    ELSE IF path \in DOMAIN fs THEN fs[path] ELSE "missing"

Exit(code) ==
    /\ pc' = "exit"
    /\ exitCode' = code

\* module level, lines 16-29: the imports of sentencepiece and huggingface_hub
LlamaImport ==
    /\ program = "llama" /\ pc = "import"
    /\ IF depsImportable
       THEN /\ pc' = "resolve"
            /\ UNCHANGED <<stderr, exitCode>>
       ELSE /\ stderr' = stderr \o <<Message("uv runtime missing dependency for llama helper"),
                                     Message("install with: uv pip install sentencepiece huggingface-hub")>>
            /\ Exit(1)
    /\ UNCHANGED <<program, stdout, uncaught, input_text, stdinRead>>
    /\ UNCHANGED llamaVars
    /\ UNCHANGED anthropicVars

\* resolve_model_path, line 43: a candidate that is a file is returned
ResolveCandidate ==
    /\ program = "llama" /\ pc = "resolve"
    /\ LET found == CandidateLoop(1, <<>>)
       IN  /\ found.kind = "return"
           /\ model_path' = found.path
           /\ returnedAt' = found.index
           /\ isFileChecks' = found.checks
    /\ pc' = "load"
    /\ UNCHANGED <<program, depsImportable, path_argument, env_CTX_SPM_MODEL, fs,
                   cacheDir, cacheFile, cacheFileAtStart, mkdirCalls, fetchCalls,
                   downloaded, loadOutcome>>
    /\ UNCHANGED commonVars
    /\ UNCHANGED anthropicVars

\* resolve_model_path, lines 44-49: the --spm-model path is not a file
ResolveExplicitMissing ==
    /\ program = "llama" /\ pc = "resolve"
    /\ LET found == CandidateLoop(1, <<>>)
       IN  /\ found.kind = "exit"
           /\ isFileChecks' = found.checks
    /\ stderr' = Append(stderr, Message("provided --spm-model path does not exist"))
    /\ Exit(1)
    /\ UNCHANGED <<program, stdout, uncaught, input_text, stdinRead>>
    /\ UNCHANGED <<depsImportable, path_argument, env_CTX_SPM_MODEL, fs, cacheDir,
                   cacheFile, cacheFileAtStart, mkdirCalls, fetchCalls,
                   downloaded, model_path, returnedAt, loadOutcome>>
    /\ UNCHANGED anthropicVars

\* variant: the resolver looks into the cache itself and calls
\* hf_hub_download only when the file is not there
ResolveDownload_TrustsCache ==
    /\ program = "llama" /\ pc = "resolve"
    /\ LET found == CandidateLoop(1, <<>>)
       IN  /\ found.kind = "fallthrough"
           /\ isFileChecks' = found.checks
    /\ \E made \in MkdirOutcomes(cacheDir), fetched \in FetchOutcomes(cacheFile) :
          /\ made.ok /\ fetched.ok
          /\ cacheDir' = made.dir
          /\ cacheFile' = IF cacheFile = "missing" THEN fetched.file ELSE cacheFile
    /\ mkdirCalls' = mkdirCalls + 1
    /\ fetchCalls' = IF cacheFile = "missing" THEN fetchCalls + 1 ELSE fetchCalls
    /\ downloaded' = IF cacheFile = "missing" THEN CachedModel ELSE downloaded
    /\ model_path' = CachedModel
    /\ returnedAt' = Len(candidates) + 1
    /\ pc' = "load"
    /\ UNCHANGED <<program, depsImportable, path_argument, env_CTX_SPM_MODEL, fs,
                   cacheFileAtStart, loadOutcome>>
    /\ UNCHANGED commonVars
    /\ UNCHANGED anthropicVars

\* resolve_model_path, lines 51-59: mkdir and hf_hub_download succeed
ResolveDownload ==
    /\ program = "llama" /\ pc = "resolve"
    /\ LET found == CandidateLoop(1, <<>>)
       IN  /\ found.kind = "fallthrough"
           /\ isFileChecks' = found.checks
    /\ \E made \in MkdirOutcomes(cacheDir), fetched \in FetchOutcomes(cacheFile) :
          /\ made.ok /\ fetched.ok
          /\ cacheDir' = made.dir
          /\ cacheFile' = fetched.file
    /\ mkdirCalls' = mkdirCalls + 1
    /\ fetchCalls' = fetchCalls + 1
    /\ downloaded' = CachedModel
    /\ model_path' = downloaded'
    /\ returnedAt' = Len(candidates) + 1
    /\ pc' = "load"
    /\ UNCHANGED <<program, depsImportable, path_argument, env_CTX_SPM_MODEL, fs,
                   cacheFileAtStart, loadOutcome>>
    /\ UNCHANGED commonVars
    /\ UNCHANGED anthropicVars

\* resolve_model_path, lines 51-70: mkdir or hf_hub_download raises
ResolveDownloadFails ==
    /\ program = "llama" /\ pc = "resolve"
    /\ LET found == CandidateLoop(1, <<>>)
       IN  /\ found.kind = "fallthrough"
           /\ isFileChecks' = found.checks
    /\ \E made \in MkdirOutcomes(cacheDir) :
          /\ cacheDir' = made.dir
          /\ mkdirCalls' = mkdirCalls + 1
          /\ IF made.ok
             THEN /\ \E fetched \in FetchOutcomes(cacheFile) :
                        ~fetched.ok /\ cacheFile' = fetched.file
                  /\ fetchCalls' = fetchCalls + 1
             ELSE UNCHANGED <<cacheFile, fetchCalls>>
    /\ stderr' = stderr \o <<Message("failed to download SentencePiece model"),
                             Message("set CTX_SPM_MODEL to a local tokenizer.model or configure CTX_SPM_MODEL_REPO/FILE")>>
    /\ Exit(1)
    /\ UNCHANGED <<program, stdout, uncaught, input_text, stdinRead>>
    /\ UNCHANGED <<depsImportable, path_argument, env_CTX_SPM_MODEL, fs,
                   cacheFileAtStart, downloaded, model_path, returnedAt, loadOutcome>>
    /\ UNCHANGED anthropicVars

\* processor.Load(str(model_path)): what the library can answer for a file.
\* An empty file is never a model; a non-empty one may be corrupt.
LoadOutcomes(path) ==
    IF KindOf(path) = "nonempty_file" THEN {"loaded", "raised"} ELSE {"raised"}

\* main, lines 88-89: construct the processor and load the model; the call
\* is in no try block, so an exception of Load leaves main
LlamaLoad ==
    /\ program = "llama" /\ pc = "load"
    /\ \E outcome \in LoadOutcomes(model_path) :
          /\ loadOutcome' = outcome
          /\ IF outcome = "raised"
             THEN /\ uncaught' = TRUE
                  /\ stderr' = Append(stderr, Message("Traceback (most recent call last)"))
                  /\ Exit(1)
             ELSE /\ pc' = "encode"
                  /\ UNCHANGED <<uncaught, stderr, exitCode>>
    /\ UNCHANGED <<program, stdout, input_text, stdinRead>>
    /\ UNCHANGED <<depsImportable, path_argument, env_CTX_SPM_MODEL, fs, cacheDir,
                   cacheFile, cacheFileAtStart, isFileChecks, mkdirCalls,
                   fetchCalls, downloaded, model_path, returnedAt>>
    /\ UNCHANGED anthropicVars

\* processor.EncodeAsIds(input_text): how many ids the library can answer
EncodeLengths(text) == IF text = "" THEN {0} ELSE 1..MaxTokens

\* main, lines 91-93: read stdin, encode, write the number of ids
LlamaEncode ==
    /\ program = "llama" /\ pc = "encode"
    /\ stdinRead' = stdinRead + 1
    /\ \E n \in EncodeLengths(input_text) : stdout' = Append(stdout, n)
    /\ Exit(0)
    /\ UNCHANGED <<program, stderr, uncaught, input_text>>
    /\ UNCHANGED llamaVars
    /\ UNCHANGED anthropicVars

----------------------------------------------------------------------------
(* anthropic_count.py *)

\* model identifiers are Python strings: sequences of code points
Str_claude_dash == <<99, 108, 97, 117, 100, 101, 45>>
Str_claude_a == Str_claude_dash \o <<97>>
Str_claude_b == Str_claude_dash \o <<98>>
Str_claud == <<99, 108, 97, 117, 100>>
Str_Claude_a == <<67, 108, 97, 117, 100, 101, 45, 97>>

\* names[:10]
SuggestionLimit == 10

\* the prefix of model_id.startswith("claude-")
FamilyPrefix == Str_claude_dash

\* entries of a model listing: getattr(model_info, "id", None) and whether
\* it is a str
StrInfo(chars) == [isStr |-> TRUE, id |-> chars]
ModelInfos ==
    {StrInfo(Str_claude_b), StrInfo(Str_claude_a), StrInfo(Str_claude_dash),
     StrInfo(Str_claud), StrInfo(Str_Claude_a),
     [isStr |-> FALSE, id |-> <<>>]}

ModelNames == {"claude-3-5-sonnet-20241022", "not-a-real-model"}
SystemPrompts == {NoneVal, "", "be brief"}
ApiKeys == {NoneVal, "", "sk-key"}

RECURSIVE Repeat(_, _)
Repeat(block, times) == IF times = 0 THEN <<>> ELSE block \o Repeat(block, times - 1)

SeqsUpTo(S, n) == UNION {[1..k -> S] : k \in 0..n}

\* the data a listing can carry
Listings == {Repeat(block, times) : block \in SeqsUpTo(ModelInfos, MaxBase),
                                    times \in 1..MaxRepeat}

\* answers of client.models.list(): a page, with or without a data attribute
ListResponses ==
    {[raised |-> FALSE, hasData |-> FALSE, data |-> <<>>]} \cup
    {[raised |-> FALSE, hasData |-> TRUE, data |-> d] : d \in Listings}

ListRaised == [raised |-> TRUE, hasData |-> FALSE, data |-> <<>>]
NoListing == [raised |-> FALSE, hasData |-> FALSE, data |-> <<>>]

\* str.startswith
startswith(chars, prefix) ==
    Len(chars) >= Len(prefix) /\ SubSeq(chars, 1, Len(prefix)) = prefix

\* str.__lt__: comparison by code points, a proper prefix is smaller
RECURSIVE StrLess(_, _)
StrLess(a, b) ==
    IF b = <<>> THEN FALSE
    ELSE IF a = <<>> THEN TRUE
    ELSE IF Head(a) # Head(b) THEN Head(a) < Head(b)
    ELSE StrLess(Tail(a), Tail(b))

\* discover_claude_models, line 118: the test of one model id
KeepsModel(model_info) ==
    model_info.isStr /\ startswith(model_info.id, FamilyPrefix)

\* discover_claude_models, lines 115-119: the loop that collects names
RECURSIVE CollectNames(_)
CollectNames(data) ==
    IF data = <<>> THEN <<>>
    ELSE IF KeepsModel(Head(data))
         THEN <<Head(data).id>> \o CollectNames(Tail(data))
         ELSE CollectNames(Tail(data))

\* insert one name into a sorted list, after the names that are not larger
RECURSIVE Insert(_, _)
Insert(name, sorted) ==
    IF sorted = <<>> THEN <<name>>
    ELSE IF StrLess(name, Head(sorted)) THEN <<name>> \o sorted
    ELSE <<Head(sorted)>> \o Insert(name, Tail(sorted))

\* names.sort(): a stable ascending sort
RECURSIVE SortNames(_)
SortNames(names) ==
    IF names = <<>> THEN <<>>
    ELSE Insert(names[Len(names)], SortNames(SubSeq(names, 1, Len(names) - 1)))

\* variant: the whole list, without the slice
FirstNames_NoLimit(names) == names

\* names[:10]
FirstNames(names) ==
    SubSeq(names, 1, IF Len(names) < SuggestionLimit THEN Len(names) ELSE SuggestionLimit)

\* variant: client.models.list() is called outside the try block
discover_claude_models_NoTry(response) ==
    IF response.raised THEN [escaped |-> TRUE, names |-> <<>>]
    ELSE LET data == IF response.hasData THEN response.data ELSE <<>>
         IN  [escaped |-> FALSE, names |-> FirstNames(SortNames(CollectNames(data)))]

\* discover_claude_models, lines 110-122, for an answer of client.models.list():
\* the names it returns, and whether an exception of the call leaves it
discover_claude_models(response) ==
    IF response.raised THEN [escaped |-> FALSE, names |-> <<>>]
    ELSE LET data == IF response.hasData THEN response.data ELSE <<>>
         IN  [escaped |-> FALSE, names |-> FirstNames(SortNames(CollectNames(data)))]

\* build_user_messages
build_user_messages(user_text) ==
    <<[role |-> "user", content |-> <<[type |-> "text", text |-> user_text]>>]>>

\* main, lines 28-33: the import of the client library
AnthropicImport ==
    /\ program = "anthropic" /\ pc = "import"
    /\ IF anthropicImportable
       THEN /\ pc' = "credential"
            /\ UNCHANGED <<stderr, exitCode>>
       ELSE /\ stderr' = stderr \o <<Message("Missing dependency 'anthropic'"),
                                     Message("Install with: uv pip install anthropic")>>
            /\ Exit(1)
    /\ UNCHANGED <<program, stdout, uncaught, input_text, stdinRead>>
    /\ UNCHANGED llamaVars
    /\ UNCHANGED anthropicVars

\* variant: "if api_key is None", which lets the empty string through
CredentialMissing_OnlyNone(key) == key = NoneVal

\* main, line 36: "if not api_key"
CredentialMissing(key) == ~Truthy(key)

\* main, lines 35-52: the credential check, then the client, stdin and the
\* request arguments
AnthropicPrepare ==
    /\ program = "anthropic" /\ pc = "credential"
    /\ IF CredentialMissing(api_key)
       THEN /\ stderr' = Append(stderr, Message("ANTHROPIC_API_KEY is not set in the environment."))
            /\ Exit(1)
            /\ UNCHANGED <<client, stdinRead, request_args>>
       ELSE /\ client' = TRUE
            /\ stdinRead' = stdinRead + 1
            /\ request_args' =
                  [model |-> model,
                   messages |-> build_user_messages(input_text),
                   system |-> IF Truthy(system_prompt) THEN system_prompt ELSE NoneVal]
            /\ pc' = "count"
            /\ UNCHANGED <<stderr, exitCode>>
    /\ UNCHANGED <<program, stdout, uncaught, input_text>>
    /\ UNCHANGED llamaVars
    /\ UNCHANGED <<anthropicImportable, richImportable, api_key, model, system_prompt,
                   countCalls, listCalls, token_count, count_error, models, suggestions>>

\* exceptions count_tokens can raise, each as the set of classes it is an
\* instance of; the library raises its status classes only when it has them
CountErrors ==
    {{"Exception"}} \cup
    (IF richImportable
     THEN {{"NotFoundError", "APIStatusError", "Exception"}, {"APIStatusError", "Exception"}}
     ELSE {})

\* main, lines 54-56: the count call returns or raises
CountTokens ==
    /\ program = "anthropic" /\ pc = "count"
    /\ countCalls' = countCalls + 1
    /\ \/ /\ \E n \in 0..MaxTokens : token_count' = n
          /\ pc' = "write"
          /\ UNCHANGED count_error
       \/ /\ \E raised \in CountErrors : count_error' = raised
          /\ pc' = "handle"
          /\ UNCHANGED token_count
    /\ UNCHANGED commonVars
    /\ UNCHANGED llamaVars
    /\ UNCHANGED <<program, anthropicImportable, richImportable, api_key, model,
                   system_prompt, client, request_args, listCalls, models, suggestions>>

\* handle_count_error, lines 80-83: the classes the handler could import;
\* "()" stands for the empty tuple of the fallback
EmptyTuple == "()"
ImportedNotFoundError == IF richImportable THEN "NotFoundError" ELSE EmptyTuple
ImportedAPIStatusError == IF richImportable THEN "APIStatusError" ELSE EmptyTuple

\* isinstance(error, cls); nothing is an instance of the empty tuple
isinstance(error, cls) == cls # EmptyTuple /\ cls \in error

\* variant: discovery for every status error
IsNotFound_AnyStatus(error) == isinstance(error, ImportedAPIStatusError)

\* handle_count_error, line 85: the test that guards discovery
IsNotFound(error) == isinstance(error, ImportedNotFoundError)

\* handle_count_error, line 96
IsApiStatus(error) ==
    ImportedAPIStatusError # EmptyTuple /\ isinstance(error, ImportedAPIStatusError)

\* variant: the not-found branch lacks its sys.exit(1)
BranchExits_NotFoundReturns(branch) == branch \in {"api_status", "other"}

\* handle_count_error, lines 94, 100 and 105: the sys.exit(1) that ends a branch
BranchExits(branch) == branch \in {"not_found", "api_status", "other"}

\* what client.models.list() can do: answer a page or raise
ListAnswers == ListResponses \cup {ListRaised}

NoBranch == [out |-> <<>>, exits |-> FALSE, escaped |-> FALSE]

\* handle_count_error, lines 85-94; an exception that leaves the discovery
\* call leaves the handler too, before anything is written
NotFoundBranch(error, response) ==
    IF IsNotFound(error)
    THEN LET found == discover_claude_models(response)
         IN  IF found.escaped
             THEN [out |-> <<Message("Traceback (most recent call last)")>>,
                   exits |-> TRUE, escaped |-> TRUE]
             ELSE [out |-> <<Diagnostic("Model was not found by the Anthropic API.", model, <<>>)>>
                           \o (IF found.names # <<>>
                               THEN <<Diagnostic("Available Claude models", NoneVal, found.names)>>
                               ELSE <<>>),
                   exits |-> BranchExits("not_found"), escaped |-> FALSE]
    ELSE NoBranch

\* handle_count_error, lines 96-100
ApiStatusBranch(error) ==
    IF IsApiStatus(error)
    THEN [out |-> <<Diagnostic("Failed to count tokens via Anthropic API", NoneVal, <<>>)>>,
          exits |-> BranchExits("api_status"), escaped |-> FALSE]
    ELSE NoBranch

\* handle_count_error, lines 102-105
OtherBranch ==
    [out |-> <<Diagnostic("Failed to count tokens via Anthropic API", NoneVal, <<>>)>>,
     exits |-> BranchExits("other"), escaped |-> FALSE]

\* main, line 57, and handle_count_error: the branches run in order until one
\* exits; discovery is called inside the first
HandleCountError ==
    /\ program = "anthropic" /\ pc = "handle"
    /\ \E response \in (IF IsNotFound(count_error) THEN ListAnswers ELSE {NoListing}) :
          LET first == NotFoundBranch(count_error, response)
              second == IF first.exits THEN NoBranch ELSE ApiStatusBranch(count_error)
              third == IF first.exits \/ second.exits THEN NoBranch ELSE OtherBranch
          IN  /\ stderr' = stderr \o first.out \o second.out \o third.out
              /\ uncaught' = (uncaught \/ first.escaped)
              /\ IF first.exits \/ second.exits \/ third.exits
                 THEN Exit(1)
                 ELSE pc' = "write" /\ UNCHANGED exitCode
              /\ IF IsNotFound(count_error)
                 THEN /\ listCalls' = listCalls + 1
                      /\ models' = response
                      /\ suggestions' = discover_claude_models(response).names
                 ELSE UNCHANGED <<listCalls, models, suggestions>>
    /\ UNCHANGED <<program, stdout, input_text, stdinRead>>
    /\ UNCHANGED llamaVars
    /\ UNCHANGED <<anthropicImportable, richImportable, api_key, model, system_prompt,
                   client, request_args, countCalls, token_count, count_error>>

\* main, line 60: write the count; token_count is unbound when the handler
\* came back
WriteCount ==
    /\ program = "anthropic" /\ pc = "write"
    /\ IF token_count = Unbound
       THEN /\ uncaught' = TRUE
            /\ stderr' = Append(stderr, Message("Traceback (most recent call last)"))
            /\ Exit(1)
            /\ UNCHANGED stdout
       ELSE /\ stdout' = Append(stdout, token_count)
            /\ Exit(0)
            /\ UNCHANGED <<uncaught, stderr>>
    /\ UNCHANGED <<program, input_text, stdinRead>>
    /\ UNCHANGED llamaVars
    /\ UNCHANGED anthropicVars

----------------------------------------------------------------------------
(* The two scripts *)

\* states of DEFAULT_CACHE and of the model file in it
CacheStates ==
    {<<"absent", "missing">>, <<"not_a_directory", "missing">>, <<"directory", "missing">>,
     <<"directory", "empty_file">>, <<"directory", "nonempty_file">>}

InitCommon ==
    /\ pc = "import"
    /\ stdout = <<>>
    /\ stderr = <<>>
    /\ exitCode = -1
    /\ uncaught = FALSE
    /\ input_text \in Texts
    /\ stdinRead = 0

InitLlama ==
    /\ isFileChecks = <<>>
    /\ mkdirCalls = 0
    /\ fetchCalls = 0
    /\ downloaded = NoneVal
    /\ model_path = NoneVal
    /\ returnedAt = 0
    /\ loadOutcome = "none"
    /\ cacheFileAtStart = cacheFile

InitAnthropic ==
    /\ client = FALSE
    /\ request_args = NoneVal
    /\ countCalls = 0
    /\ listCalls = 0
    /\ token_count = Unbound
    /\ count_error = {}
    /\ models = NoListing
    /\ suggestions = <<>>

Init ==
    /\ InitCommon
    /\ program \in {"llama", "anthropic"}
    /\ IF program = "llama"
       THEN /\ depsImportable \in BOOLEAN
            /\ path_argument \in PathStrings
            /\ env_CTX_SPM_MODEL \in PathStrings
            /\ fs \in [FsPaths -> FileKinds]
            /\ \E cache \in CacheStates : cacheDir = cache[1] /\ cacheFile = cache[2]
            /\ anthropicImportable = TRUE /\ richImportable = TRUE
            /\ api_key = NoneVal /\ model = NoneVal /\ system_prompt = NoneVal
       ELSE /\ anthropicImportable \in BOOLEAN
            /\ richImportable \in BOOLEAN
            /\ api_key \in ApiKeys
            /\ model \in ModelNames
            /\ system_prompt \in SystemPrompts
            /\ depsImportable = TRUE
            /\ path_argument = NoneVal /\ env_CTX_SPM_MODEL = NoneVal
            /\ fs = [p \in FsPaths |-> "missing"]
            /\ cacheDir = "absent" /\ cacheFile = "missing"
    /\ InitLlama
    /\ InitAnthropic

Next ==
    \/ LlamaImport
    \/ ResolveCandidate
    \/ ResolveExplicitMissing
    \/ ResolveDownload
    \/ ResolveDownloadFails
    \/ LlamaLoad
    \/ LlamaEncode
    \/ AnthropicImport
    \/ AnthropicPrepare
    \/ CountTokens
    \/ HandleCountError
    \/ WriteCount

Spec == Init /\ [][Next]_vars

----------------------------------------------------------------------------
(* Vocabulary of the properties *)

\* error kind of a message on stderr
KindOfMessage(text) ==
    CASE text = "uv runtime missing dependency for llama helper" -> "MissingDependency"
      [] text = "Missing dependency 'anthropic'" -> "MissingDependency"
      [] text = "ANTHROPIC_API_KEY is not set in the environment." -> "MissingCredential"
      [] text = "provided --spm-model path does not exist" -> "ArtifactUnavailable"
      [] text = "failed to download SentencePiece model" -> "ArtifactUnavailable"
      [] text = "Model was not found by the Anthropic API." -> "ModelNotFound"
      [] text = "Failed to count tokens via Anthropic API" -> "TransportFailureOrUnknown"
      [] text = "Traceback (most recent call last)" -> "Unclassified"
      [] OTHER -> "Hint"

\* kinds of the classified errors on stderr, in order
ReportedKinds ==
    SelectSeq([i \in 1..Len(stderr) |-> KindOfMessage(stderr[i].msg)],
              LAMBDA kind : kind \notin {"Hint", "Unclassified"})

\* the script ended with exactly one classified error of this kind
FailedWith(kind) ==
    /\ pc = "exit" /\ exitCode = 1 /\ ~uncaught
    /\ ReportedKinds = <<kind>>
    /\ stdout = <<>>

ExplicitGiven == Truthy(path_argument)
ExplicitIsFile == ExplicitGiven /\ KindOf(expanduser(path_argument)) \in {"empty_file", "nonempty_file"}
EnvGiven == Truthy(env_CTX_SPM_MODEL)
EnvIsFile == EnvGiven /\ KindOf(expanduser(env_CTX_SPM_MODEL)) \in {"empty_file", "nonempty_file"}

\* resolve_model_path was called and is over
Resolved == program = "llama" /\ depsImportable /\ pc \notin {"import", "resolve"}

\* the is_file() checks that looked at the environment override
EnvChecks == SelectSeq(isFileChecks, LAMBDA check : check[1] = 2)

----------------------------------------------------------------------------
(* Properties of resolve_model_path *)

\* C1: a non-empty --spm-model path that is not an existing regular file ends
\* resolution with the "path does not exist" error and exit status 1; the
\* environment override is not examined, the cache directory is not created
\* and hf_hub_download is not called.
C1_ExplicitMissingFailsHard ==
    (Resolved /\ ExplicitGiven /\ ~ExplicitIsFile) =>
        /\ FailedWith("ArtifactUnavailable")
        /\ stderr = <<Message("provided --spm-model path does not exist")>>
        /\ EnvChecks = <<>>
        /\ mkdirCalls = 0
        /\ fetchCalls = 0
        /\ cacheFile = cacheFileAtStart
        /\ model_path = NoneVal

\* an explicit path that is a directory, with a usable environment override
C1_Witness ==
    /\ Resolved /\ pc = "exit"
    /\ ExplicitGiven /\ KindOf(expanduser(path_argument)) = "directory"
    /\ EnvIsFile
    /\ cacheDir = "absent"
    /\ isFileChecks = <<<<1, expanduser(path_argument)>>>>

\* C2: one tier per resolution, in the order explicit path, environment
\* override, cache/download: an explicit file wins over everything, the
\* override is used only without an explicit path and when it is a file, an
\* override that is not a file is skipped without an error, and
\* hf_hub_download is reached only when neither yields a file.
C2_TierPriority ==
    Resolved =>
        /\ ExplicitIsFile =>
              /\ returnedAt = 1 /\ model_path = expanduser(path_argument)
              /\ EnvChecks = <<>> /\ mkdirCalls = 0 /\ fetchCalls = 0
        /\ (returnedAt = 2) <=> (~ExplicitGiven /\ EnvIsFile)
        /\ returnedAt = 2 =>
              /\ model_path = expanduser(env_CTX_SPM_MODEL)
              /\ mkdirCalls = 0 /\ fetchCalls = 0
        /\ (mkdirCalls > 0 \/ fetchCalls > 0 \/ returnedAt = 3) =>
              ~ExplicitGiven /\ ~EnvIsFile
        /\ (~ExplicitGiven /\ EnvGiven /\ ~EnvIsFile) =>
              /\ mkdirCalls = 1
              /\ "provided --spm-model path does not exist" \notin {stderr[i].msg : i \in 1..Len(stderr)}
        /\ returnedAt = 3 => fetchCalls = 1 /\ model_path = downloaded

\* an override that is set but names no file, skipped on the way to the download
C2_Witness ==
    /\ Resolved /\ returnedAt = 3
    /\ ~ExplicitGiven /\ EnvGiven /\ ~EnvIsFile
    /\ EnvChecks # <<>>

\* resolution without explicit path and usable override, the model file
\* already in the cache directory
CachePopulatedCase ==
    Resolved /\ ~ExplicitGiven /\ ~EnvIsFile /\ cacheFileAtStart # "missing"

\* C3 as stated: with the model file already in the cache directory the
\* cached file is returned and hf_hub_download is not called.
C3_AsStated ==
    CachePopulatedCase => (model_path = CachedModel /\ fetchCalls = 0)

\* C3, amended: with the model file already in the cache directory the
\* resolver does not look into the cache itself; it calls mkdir and
\* hf_hub_download exactly once and returns the path that call returns, or
\* fails with the download error when the call raises.
C3_CacheHitGoesThroughFetch ==
    CachePopulatedCase =>
        /\ mkdirCalls = 1 /\ fetchCalls = 1
        /\ \/ returnedAt = 3 /\ downloaded # NoneVal /\ model_path = downloaded
           \/ /\ returnedAt = 0 /\ model_path = NoneVal
              /\ FailedWith("ArtifactUnavailable")
              /\ stderr[1].msg = "failed to download SentencePiece model"

C3_Witness ==
    /\ CachePopulatedCase /\ returnedAt = 3
    /\ cacheFileAtStart = "nonempty_file" /\ cacheFile = "nonempty_file"
    /\ model_path = CachedModel /\ fetchCalls = 1

\* C4 as stated: a returned path names a file that exists and is not empty;
\* otherwise resolution fails with ArtifactUnavailable and returns no path.
C4_AsStated ==
    Resolved =>
        IF returnedAt # 0
        THEN KindOf(model_path) = "nonempty_file"
        ELSE model_path = NoneVal /\ FailedWith("ArtifactUnavailable")

\* C4, amended: a path returned from the explicit or the override tier was an
\* existing regular file, possibly empty, when it was checked; a path from
\* the cache/download tier is the path hf_hub_download returned, unchecked;
\* otherwise resolution fails with ArtifactUnavailable and returns no path.
C4_ReturnedPathIsRegularFile ==
    Resolved =>
        /\ returnedAt \in {1, 2} =>
              /\ KindOf(model_path) \in {"empty_file", "nonempty_file"}
              /\ isFileChecks[Len(isFileChecks)] = <<returnedAt, model_path>>
        /\ returnedAt = 3 => model_path = downloaded /\ fetchCalls = 1
        /\ returnedAt = 0 => model_path = NoneVal /\ FailedWith("ArtifactUnavailable")

\* an empty file named by the environment override is returned
C4_Witness ==
    /\ Resolved /\ returnedAt = 2
    /\ KindOf(model_path) = "empty_file"

\* C5: when the path resolved but processor.Load fails, the failure is
\* reported as a classified ArtifactUnavailable error, no exception leaves
\* the script unclassified and no token count is written.
C5_LoadFailureClassified ==
    (program = "llama" /\ loadOutcome = "raised") =>
        /\ ~uncaught
        /\ FailedWith("ArtifactUnavailable")

----------------------------------------------------------------------------
(* Properties of anthropic_count.py *)

\* a begins with prefix, stated position by position
HasPrefix(a, prefix) ==
    Len(a) >= Len(prefix) /\ \A i \in 1..Len(prefix) : a[i] = prefix[i]

\* a <= b in the order of code points
LexLeq(a, b) ==
    \/ HasPrefix(b, a)
    \/ \E k \in 1..Len(a) :
          /\ k <= Len(b)
          /\ \A i \in 1..(k - 1) : a[i] = b[i]
          /\ a[k] < b[k]

\* the listing of the discovery call and its entries of the claude- family
ListedData == IF models.hasData THEN models.data ELSE <<>>
FamilyEntries ==
    {i \in 1..Len(ListedData) :
        ListedData[i].isStr /\ HasPrefix(ListedData[i].id, FamilyPrefix)}
Occurrences(names, name) == Cardinality({i \in 1..Len(names) : names[i] = name})
ListedOccurrences(name) == Cardinality({i \in FamilyEntries : ListedData[i].id = name})
FamilyNames == {ListedData[i].id : i \in FamilyEntries}
ReportedLists ==
    SelectSeq(stderr, LAMBDA line : line.msg = "Available Claude models")

DiscoveryAnswered == program = "anthropic" /\ listCalls = 1 /\ ~models.raised

\* C6: the suggestions are the first min(10, n) elements of the sorted list
\* of the listed ids that are strings beginning with "claude-": each belongs
\* to the family, the sequence ascends, it has min(10, n) elements, no id is
\* taken more often than listed, and every id left out is not smaller than
\* any id taken. The list is written to stderr when it is not empty.
C6_SuggestionsSortedPrefixOfFamily ==
    DiscoveryAnswered =>
        /\ Len(suggestions) =
              (IF Cardinality(FamilyEntries) < 10 THEN Cardinality(FamilyEntries) ELSE 10)
        /\ \A i \in 1..Len(suggestions) : suggestions[i] \in FamilyNames
        /\ \A i, j \in 1..Len(suggestions) : i < j => LexLeq(suggestions[i], suggestions[j])
        /\ \A name \in FamilyNames :
              /\ Occurrences(suggestions, name) <= ListedOccurrences(name)
              /\ Occurrences(suggestions, name) < ListedOccurrences(name) =>
                    \A i \in 1..Len(suggestions) : LexLeq(suggestions[i], name)
        /\ IF suggestions = <<>>
           THEN ReportedLists = <<>>
           ELSE Len(ReportedLists) = 1 /\ ReportedLists[1].items = suggestions

\* more than ten family entries among others, cut to ten, two ids taken
C6_Witness ==
    /\ DiscoveryAnswered
    /\ Cardinality(FamilyEntries) > 10
    /\ Cardinality(FamilyEntries) < Len(ListedData)
    /\ Len(suggestions) = 10
    /\ suggestions[1] # suggestions[10]
    /\ ReportedLists # <<>>

\* C7: when the count call fails with NotFoundError and client.models.list()
\* raises, the script still ends with the not-found error for the requested
\* model, exit status 1, and no suggestions; nothing of the discovery failure
\* shows.
C7_DiscoveryFailureAbsorbed ==
    (program = "anthropic" /\ pc = "exit" /\ listCalls = 1 /\ models.raised) =>
        /\ "NotFoundError" \in count_error
        /\ FailedWith("ModelNotFound")
        /\ stderr = <<Diagnostic("Model was not found by the Anthropic API.", model, <<>>)>>
        /\ suggestions = <<>>

C7_Witness ==
    /\ program = "anthropic" /\ pc = "exit"
    /\ "NotFoundError" \in count_error
    /\ listCalls = 1 /\ models.raised
    /\ model = "not-a-real-model"

\* C8: without a credential (ANTHROPIC_API_KEY unset or empty) the script
\* ends with the missing-credential error before the client is constructed
\* and before stdin is read, with no count call and no listing call; without
\* the client library it ends with the missing-dependency error in the same way.
C8_ConfigurationErrorsHaveNoSideEffects ==
    /\ (program = "anthropic" /\ ~anthropicImportable /\ pc # "import") =>
          /\ pc = "exit" /\ exitCode = 1 /\ ~uncaught /\ stdout = <<>>
          /\ ReportedKinds = <<"MissingDependency">>
          /\ ~client /\ stdinRead = 0 /\ countCalls = 0 /\ listCalls = 0
    /\ (program = "anthropic" /\ anthropicImportable /\ ~Truthy(api_key)
          /\ pc \notin {"import", "credential"}) =>
          /\ FailedWith("MissingCredential")
          /\ ~client /\ stdinRead = 0 /\ countCalls = 0 /\ listCalls = 0
          /\ request_args = NoneVal

\* the empty credential
C8_Witness ==
    /\ program = "anthropic" /\ pc = "exit"
    /\ anthropicImportable /\ api_key = ""
    /\ ~client

\* C9: an invocation that reached the count call ends with exactly one
\* outcome: the count written, after a count call that returned, or exactly
\* one classified error and exit status 1; no count is written after a failed
\* count call and the count call is made at most once.
C9_ExactlyOneOutcome ==
    program = "anthropic" =>
        /\ countCalls <= 1
        /\ (stdout # <<>>) => (count_error = {} /\ countCalls = 1)
        /\ (countCalls = 1 /\ pc = "exit") =>
              /\ ~uncaught
              /\ \/ /\ count_error = {} /\ token_count >= 0
                    /\ stdout = <<token_count>> /\ stderr = <<>> /\ exitCode = 0
                 \/ /\ count_error # {}
                    /\ stdout = <<>> /\ exitCode = 1
                    /\ Len(ReportedKinds) = 1
                    /\ ReportedKinds[1] \in {"ModelNotFound", "TransportFailureOrUnknown"}

\* a not-found failure with suggestions, reported once
C9_Witness ==
    /\ program = "anthropic" /\ pc = "exit" /\ countCalls = 1
    /\ "NotFoundError" \in count_error
    /\ suggestions # <<>>
    /\ stdout = <<>>

\* C10: client.models.list() is called only after a count call that failed
\* with NotFoundError: never after a count that returned, and never for a
\* status error or another exception, which are reported without
\* suggestions; without the importable exception classes there is no
\* discovery at all.
C10_DiscoveryOnlyOnNotFound ==
    program = "anthropic" =>
        /\ listCalls <= 1
        /\ listCalls = 1 => ("NotFoundError" \in count_error /\ richImportable)
        /\ ("NotFoundError" \notin count_error) =>
              /\ listCalls = 0 /\ suggestions = <<>> /\ ReportedLists = <<>>
        /\ (pc = "exit" /\ count_error # {} /\ "NotFoundError" \notin count_error) =>
              stderr = <<Diagnostic("Failed to count tokens via Anthropic API", NoneVal, <<>>)>>

\* a status error that is not NotFoundError, reported without discovery
C10_Witness ==
    /\ program = "anthropic" /\ pc = "exit"
    /\ count_error = {"APIStatusError", "Exception"}
    /\ listCalls = 0 /\ exitCode = 1

====
